---- MODULE Spec2Model ----
(***************************************************************************)
(* PixSnap: the preview page (src/src/app/preview/page.tsx) and the        *)
(* configuration page (src/src/components/pixsnap/pixsnap-client.tsx).     *)
(*                                                                         *)
(* Specifications.                                                         *)
(*  - Spec: handleCapture and its size search, from a settled page, with   *)
(*    an encoder that may return any size.                                 *)
(*  - SpecEstimator: getEstimatedByteSize applied to strings.              *)
(*  - SpecScenario: handleCapture with an encoder losing 15% per step.     *)
(*  - SpecPage: the preview page from its first render: loading of the     *)
(*    settings, the calls of initializeCamera and their awaits, capture,   *)
(*    retake, camera switch and download.                                  *)
(*  - SpecTransport: the configuration page opening the preview window.    *)
(*  - SpecConfig: the inputs of the configuration form.                    *)
(*  - SpecSingle: the single-page component (src/unnamed/part_001 and its  *)
(*    copy in generate-image-name-flow.ts): camera, form, capture,         *)
(*    download.  SpecMount: the same component left alone after its        *)
(*    mount, with fairness for the pending promises and events.            *)
(*  - SpecNaming: generateImageName applied to the answers of the model.   *)
(*                                                                         *)
(* Units.                                                                  *)
(*  - A quality is the double the code computes.  It is written            *)
(*    [h |-> hundredths, lo |-> BOOLEAN]: lo = FALSE is the double nearest *)
(*    to h/100, lo = TRUE is a double a few ulps below it (the rounding    *)
(*    error of the repeated "currentQuality -= qualityStep").              *)
(*  - A byte size is kept in quarter bytes, because the code computes      *)
(*    base64.length * 3/4 in floating point and does not round it.         *)
(*  - A data URL is [comma, mime, q, len, pad]: whether it holds a ',',    *)
(*    the mime type and quality it was encoded with, the length of the     *)
(*    text after the first ',' and the number of trailing '=' of it.       *)
(***************************************************************************)
EXTENDS Integers, Naturals, Sequences, FiniteSets, TLC

\* ------------------------------------------------------------------ bounds
\* targetFileSizeKB ranges over 0..MaxTargetKB
MaxTargetKB == 2
\* the encoder's outputs lie within Spread bytes of each target
Spread == 1
\* the strings handed to getEstimatedByteSize have at most MaxUriLen characters
MaxUriLen == 6
\* the shrinking encoder is within RoundingSlack bytes of 85% per step
RoundingSlack == 1
\* initializeCamera is called at most MaxInitCalls times in a page session
MaxInitCalls == 3
\* the model's answer to the naming prompt has at most MaxPrefixLen characters
MaxPrefixLen == 3
\* the streams of the single page are told apart by MaxStreams names
MaxStreams == 3
\* the device has at most MaxCameras video inputs
MaxCameras == 2

\* ------------------------------------------------------- program constants
minQualityHundredths == 10
\* a step of 0.01
qualityStepFine == minQualityHundredths \div 10
qualityStepHundredths == 5
attemptsMargin == 5
jpegInitialQuality == 92
webpInitialQuality == 90
bytesPerKB == 1024
\* quarter bytes in a byte: the denominator of "* 3/4"
Quarter == 4
\* quarter bytes per base64 character: the numerator of "* 3/4"
ThreeQuarters == 3

Formats == {"png", "jpeg", "webp"}

\* ---------------------------------------------------------------- qualities
Q(h, lo) == [h |-> h, lo |-> lo]
\* "initialQuality: number | undefined = undefined"
UndefinedQuality == Q(-1, FALSE)
minQuality == Q(minQualityHundredths, FALSE)

\* a < b on the doubles
QLess(a, b) == a.h < b.h \/ (a.h = b.h /\ a.lo /\ ~b.lo)
QLeq(a, b) == a = b \/ QLess(a, b)

\* IEEE-754: 0.92, 0.87, 0.82, 0.90, 0.85 come out as the nearest doubles;
\* from 0.7999999999999999 (webp) and 0.7699999999999999 (jpeg) on, every
\* difference is strictly below the decimal it approximates.
RoundsBelow(h) == h <= 80

\* "currentQuality -= qualityStep"
SubtractStep(q) ==
  LET h == q.h - qualityStepHundredths
  IN  Q(h, q.lo \/ RoundsBelow(h))

\* "if (currentQuality < minQuality) currentQuality = minQuality"
ClampNone(q) == q
Clamp(q) == IF QLess(q, minQuality) THEN minQuality ELSE q

CeilDiv(a, b) == (a + b - 1) \div b

MaxAttemptsFloor(q) ==
  (q.h - minQualityHundredths) \div qualityStepHundredths

\* "Math.ceil((currentQuality - minQuality) / qualityStep) + 5"
\* (16.4 -> 17 for jpeg, exactly 16.0 -> 16 for webp)
MaxAttempts(q) ==
  CeilDiv(q.h - minQualityHundredths, qualityStepHundredths) + attemptsMargin

\* the switch on settings.format
MimeType(format) ==
  CASE format = "jpeg" -> "image/jpeg"
    [] format = "webp" -> "image/webp"
    [] OTHER -> "image/png"

InitialQualityPngLossy(format) ==
  CASE format = "jpeg" -> Q(jpegInitialQuality, FALSE)
    [] format = "webp" -> Q(webpInitialQuality, FALSE)
    [] OTHER -> Q(jpegInitialQuality, FALSE)

InitialQuality(format) ==
  CASE format = "jpeg" -> Q(jpegInitialQuality, FALSE)
    [] format = "webp" -> Q(webpInitialQuality, FALSE)
    [] OTHER -> UndefinedQuality

\* ---------------------------------------------------------------- data URLs
NoImage == [comma |-> FALSE, mime |-> "none", q |-> UndefinedQuality,
            len |-> 0, pad |-> 0]

\* the estimate rounded down to whole bytes
getEstimatedByteSizeFloored(uri) ==
  IF ~uri.comma THEN 0
  ELSE Quarter * ((ThreeQuarters * uri.len) \div Quarter) - Quarter * uri.pad

\* getEstimatedByteSize, in quarter bytes
getEstimatedByteSize(uri) ==
  IF ~uri.comma THEN 0
  ELSE ThreeQuarters * uri.len - Quarter * uri.pad

\* a whole number of bytes, in quarter bytes
Bytes(n) == Quarter * n

\* the base64 text of n bytes: 4 characters per 3 bytes, padded with '='
Base64Body(n) ==
  [len |-> Quarter * CeilDiv(n, ThreeQuarters),
   pad |-> (ThreeQuarters - (n % ThreeQuarters)) % ThreeQuarters]

\* What canvas.toDataURL may return: the base64 of an image of any size.
\* The sizes tried are 0 bytes and those within Spread bytes of each target,
\* so that every comparison with the target and with the current best can
\* come out every way.
EncoderSizes ==
  {0} \cup { k * bytesPerKB + d : k \in 1..MaxTargetKB, d \in (0 - Spread)..Spread }

EncoderBodies == { Base64Body(n) : n \in EncoderSizes }

\* canvas.toDataURL(mime, quality) with body b
DataURL(mime, quality, b) ==
  [comma |-> TRUE, mime |-> mime, q |-> quality, len |-> b.len, pad |-> b.pad]

\* ------------------------------------------------------------------- state
VARIABLES
  settings,             \* PixsnapSettings loaded from the URL
  stream,               \* the MediaStream of the stream state, or NoStream
  hasCameraPermission,  \* "null", "true" or "false"
  pc,                   \* position in handleCapture: idle, loop, exit, done
  initialQuality,       \* locals of handleCapture
  tempImageUrl,
  finalQuality,
  currentQuality,
  attempts,
  currentSize,
  nextImgUrl,
  imageDataUrl,         \* state shown in the preview, NoImage for null
  isPreviewing,
  isCapturingPhoto,
  toasts,               \* the notifications of this capture, in order
  encodeCount,          \* history: calls of canvas.toDataURL
  iterations,           \* history: executions of the loop body
  anyMet,               \* history: some encode was at or below the target
  firstImageUrl,        \* history: the encode at the initial quality
  tried,                \* history: the qualities passed to the encoder
  dataUri,              \* estimator: the argument of getEstimatedByteSize
  estimate,             \* estimator: <<>> or <<its result, in quarter bytes>>
  encoder,              \* which canvas encoder the browser has
  canvas,               \* <<canvas.width, canvas.height>> as last assigned
  videoSrc,             \* videoRef.current.srcObject, a stream or NoStream
  liveTracks,           \* the streams whose tracks have not been stopped
  lastCapture,          \* history: the image of the most recent capture
  searchParams,         \* the query parameters of the preview window
  isLoadingSettings,
  webcamError,
  isLoadingCamera,
  availableCameras,     \* the length of the availableCameras state
  currentCameraIndex,
  runs,                 \* the calls of initializeCamera waiting at an await
  initCalls,            \* history: the calls of initializeCamera so far
  closureStream,        \* "stream" as the current initializeCamera closed over it
  cleanupStream,        \* "stream" as the pending effect cleanup closed over it
  cameras,              \* the number of video inputs of the device
  download,             \* the last download started: [href, name]
  selectedAspectRatio,  \* the state of the configuration page
  customWidth,
  customHeight,
  outputFormat,
  targetFileSizeKB,
  sessionStorage,       \* the text stored under 'pixsnapSettings', or <<>>
  previewOpen,          \* the preview window exists
  emitted,              \* history: the settings the configuration page sent
  capturedImage,        \* single page: the image captured, or NoCapture
  isLoading,            \* single page: the camera is being initialised
  streamInDeps,         \* single page: initializeCamera depends on stream
  output,               \* naming flow: what "await prompt(input)" gave
  flowReturn            \* naming flow: how generateImageName ended

vars == <<settings, stream, hasCameraPermission, pc, initialQuality,
          tempImageUrl, finalQuality, currentQuality, attempts, currentSize,
          nextImgUrl, imageDataUrl, isPreviewing, isCapturingPhoto, toasts,
          encodeCount, iterations, anyMet, firstImageUrl, tried,
          dataUri, estimate, encoder, canvas, videoSrc, liveTracks,
          lastCapture, searchParams, isLoadingSettings, webcamError,
          isLoadingCamera, availableCameras, currentCameraIndex, runs,
          initCalls, closureStream, cleanupStream, cameras, download,
          selectedAspectRatio, customWidth, customHeight, outputFormat,
          targetFileSizeKB, sessionStorage, previewOpen, emitted,
          capturedImage, isLoading, streamInDeps, output, flowReturn>>

locals == <<initialQuality, tempImageUrl, finalQuality, currentQuality,
            attempts, currentSize, nextImgUrl>>
history == <<encodeCount, iterations, anyMet, firstImageUrl, tried>>
page == <<imageDataUrl, isPreviewing, stream, videoSrc, liveTracks,
          lastCapture>>
\* what handleCapture neither reads nor writes
\* the camera side of the page, which handleCapture leaves alone
camera == <<searchParams, isLoadingSettings, webcamError, isLoadingCamera,
            availableCameras, currentCameraIndex, runs, initCalls,
            closureStream, cleanupStream, cameras, download>>
\* the configuration page and what it sends
config == <<selectedAspectRatio, customWidth, customHeight, outputFormat,
            targetFileSizeKB, sessionStorage, previewOpen, emitted>>
\* the single-page component and the naming flow, which the two pages do
\* not share state with
apart == <<capturedImage, isLoading, streamInDeps, output, flowReturn>>
others == <<dataUri, estimate, encoder, camera, config, apart>>

\* "useState<MediaStream | null>(null)"
NoStream == 0
\* "useState<string | null>(null)"
NoError == "null"
\* a canvas element before it is sized: 300 x 150
DefaultCanvas == <<300, 150>>
NoDownload == [href |-> NoImage, name |-> <<>>]

\* ---------------------------------------------------------------- strings
\* A string is the sequence of its characters; a word that is only compared
\* as a whole (a format, an aspect ratio key) is one element of it.
Digit(d) ==
  CASE d = 0 -> "0" [] d = 1 -> "1" [] d = 2 -> "2" [] d = 3 -> "3"
    [] d = 4 -> "4" [] d = 5 -> "5" [] d = 6 -> "6" [] d = 7 -> "7"
    [] d = 8 -> "8" [] OTHER -> "9"

DigitValue(c) ==
  CASE c = "0" -> 0 [] c = "1" -> 1 [] c = "2" -> 2 [] c = "3" -> 3
    [] c = "4" -> 4 [] c = "5" -> 5 [] c = "6" -> 6 [] c = "7" -> 7
    [] c = "8" -> 8 [] OTHER -> 9

IsDigit(c) == c \in {"0", "1", "2", "3", "4", "5", "6", "7", "8", "9"}

\* the decimal digits of a natural number
RECURSIVE Digits(_)
Digits(n) ==
  IF n < 10 THEN <<Digit(n)>> ELSE Append(Digits(n \div 10), Digit(n % 10))

\* String(n) of an integer, as in a template literal or JSON.stringify
Decimal(n) == IF n < 0 THEN <<"-">> \o Digits(0 - n) ELSE Digits(n)

\* a query parameter: absent (get returns null) or present with a text
Absent == [present |-> FALSE, text |-> <<>>]
Param(text) == [present |-> TRUE, text |-> text]
\* the truthiness of "searchParams.get(name)"
Truthy(p) == p.present /\ p.text # <<>>

\* the query string that carries these settings
ParamsOf(s) ==
  [width |-> Param(Decimal(s.width)), height |-> Param(Decimal(s.height)),
   format |-> Param(<<s.format>>),
   aspectRatioKey |-> Param(<<s.aspectRatioKey>>),
   targetFileSizeKB |-> Param(Decimal(s.targetFileSizeKB))]

\* the encode most recently returned by canvas.toDataURL
LastEncode == IF iterations = 0 THEN tempImageUrl ELSE nextImgUrl

\* the byte count of a padded base64 image
EncodedBytes(img) == getEstimatedByteSize(img) \div Quarter

\* an encoder whose output drops by 15% with every quality step, to the
\* nearest bytes
Shrunk(n) ==
  { k \in ((n * 85) \div 100 - RoundingSlack)..(CeilDiv(n * 85, 100) + RoundingSlack) :
      k >= 0 }

\* "canvas.toDataURL(mimeType, initialQuality)": of any size ("arbitrary"),
\* of the scenario ("shrinking"), or of a frame that compresses to the same
\* size at every quality ("steady")
FirstEncodes ==
  CASE encoder = "shrinking" -> {Base64Body(500000)}
    [] encoder = "steady" ->
         {Base64Body(bytesPerKB - 1), Base64Body(bytesPerKB + 1)}
    [] OTHER -> EncoderBodies

\* "canvas.toDataURL(mimeType, currentQuality)" in the loop
NextEncodes ==
  CASE encoder = "shrinking" ->
         { Base64Body(n) : n \in Shrunk(EncodedBytes(LastEncode)) }
    [] encoder = "steady" -> {[len |-> LastEncode.len, pad |-> LastEncode.pad]}
    [] OTHER -> EncoderBodies

\* "const targetSizeBytes = settings.targetFileSizeKB * 1024", quarter bytes
targetSizeBytes == Bytes(settings.targetFileSizeKB * bytesPerKB)

NoValue == -1

Toast(title, description, target, size, quality) ==
  [title |-> title, description |-> description, target |-> target,
   size |-> size, quality |-> quality]

\* "(finalQuality!*100).toFixed(0)"
Percent(q) == q.h

ErrorNotReady ==
  Toast("Error", "Webcam not ready or settings missing.",
        NoValue, NoValue, NoValue)
ErrorNoContext ==
  Toast("Error", "Could not get canvas context.", NoValue, NoValue, NoValue)
\* the warning stating the quality last tried
SizeWarningLastTried ==
  Toast("File Size Warning", "Could not meet target. Actual at quality.",
        settings.targetFileSizeKB, currentSize, Percent(currentQuality))

SizeWarning ==
  Toast("File Size Warning", "Could not meet target. Actual at quality.",
        settings.targetFileSizeKB, currentSize, Percent(finalQuality))
SizeOptimized ==
  Toast("File Size Optimized", "Image size at quality.",
        NoValue, currentSize, Percent(finalQuality))
ImageCaptured == Toast("Image Captured!", "", NoValue, NoValue, NoValue)
SizeNote(size) ==
  Toast("File Size Note", "PNG size. Target size affects JPEG/WEBP quality.",
        NoValue, size, NoValue)

\* the names getUserMedia and enumerateDevices may reject with
ErrorNames == {"NotAllowedError", "NotFoundError", "DevicesNotFoundError",
               "NotReadableError", "TrackStartError", "OverconstrainedError",
               "AbortError"}

ErrorDescriptionMerged(name) ==
  CASE name = "NotAllowedError" ->
         "Camera access was denied. Please enable camera permissions in your browser settings."
    [] name \in {"NotFoundError", "DevicesNotFoundError"} ->
         "No camera found on this device."
    [] OTHER -> "Could not access webcam. Please ensure permissions are granted."

\* the description chosen in the catch block of initializeCamera
ErrorDescription(name) ==
  CASE name = "NotAllowedError" ->
         "Camera access was denied. Please enable camera permissions in your browser settings."
    [] name \in {"NotFoundError", "DevicesNotFoundError"} ->
         "No camera found on this device."
    [] name \in {"NotReadableError", "TrackStartError"} ->
         "Camera is currently in use by another application or a hardware error occurred."
    [] OTHER -> "Could not access webcam. Please ensure permissions are granted."

\* "useState<string | null>(null)" of the single-page component
NoCapture == [mime |-> "null", width |-> 0, height |-> 0]

\* generateImageName has not been called
NotCalled == [kind |-> "none", text |-> <<>>]

\* the single-page component is not mounted and the naming flow not called
ApartOff ==
  /\ capturedImage = NoCapture
  /\ isLoading = TRUE
  /\ streamInDeps = FALSE
  /\ output = NotCalled
  /\ flowReturn = NotCalled

\* the configuration page as constructed, lines 464-468 of pixsnap-client.tsx
ConfigUntouched ==
  /\ selectedAspectRatio = "16:9"
  /\ customWidth = 1280
  /\ customHeight = 720
  /\ outputFormat = "png"
  /\ targetFileSizeKB = 0
  /\ sessionStorage = <<>>
  /\ emitted = [width |-> 0, height |-> 0, format |-> "null",
                targetFileSizeKB |-> 0, aspectRatioKey |-> "null"]

\* the page after its settings were loaded from the query string and the one
\* call of initializeCamera has ended, with a stream (ready) or with an error
CameraSettled(ready) ==
  /\ searchParams = ParamsOf(settings)
  /\ isLoadingSettings = FALSE
  /\ stream = IF ready THEN 1 ELSE NoStream
  /\ hasCameraPermission = IF ready THEN "true" ELSE "false"
  /\ webcamError = IF ready THEN NoError ELSE ErrorDescription("NotAllowedError")
  /\ isLoadingCamera = FALSE
  /\ availableCameras = 1
  /\ currentCameraIndex = 0
  /\ runs = {}
  /\ initCalls = 1
  /\ closureStream = NoStream
  /\ cleanupStream = NoStream
  /\ cameras = 1
  /\ videoSrc = IF ready THEN 1 ELSE NoStream
  /\ liveTracks = IF ready THEN {1} ELSE {}
  /\ canvas = DefaultCanvas
  /\ imageDataUrl = NoImage
  /\ isPreviewing = FALSE
  /\ lastCapture = NoImage
  /\ download = NoDownload
  /\ ConfigUntouched
  /\ previewOpen = TRUE
  /\ ApartOff

\* no handler is running: the locals of handleCapture and the history of the
\* capture hold their initial values
HandlerIdle ==
  /\ pc = "idle"
  /\ initialQuality = UndefinedQuality
  /\ tempImageUrl = NoImage
  /\ finalQuality = UndefinedQuality
  /\ currentQuality = UndefinedQuality
  /\ attempts = 0
  /\ currentSize = 0
  /\ nextImgUrl = NoImage
  /\ isCapturingPhoto = FALSE
  /\ toasts = <<>>
  /\ encodeCount = 0
  /\ iterations = 0
  /\ anyMet = FALSE
  /\ firstImageUrl = NoImage
  /\ tried = <<>>

\* getEstimatedByteSize is not being exercised on its own
EstimatorOff == dataUri = <<>> /\ estimate = <<>>

\* the browser's encoder may return an image of any size at any quality
AnyEncoder == encoder = "arbitrary"

\* the states handleCapture can be called in: settings are loaded, the
\* camera is ready or not, nothing captured yet
Init ==
  /\ settings \in [width : {1280}, height : {720}, format : Formats,
                   targetFileSizeKB : 0..MaxTargetKB, aspectRatioKey : {"16:9"}]
  /\ \E ready \in BOOLEAN : CameraSettled(ready)
  /\ HandlerIdle
  /\ EstimatorOff
  /\ AnyEncoder

\* the guard of the first "if" of handleCapture
CaptureReady == stream # NoStream /\ hasCameraPermission = "true"

\* "if (!videoRef.current || ... ) { toast(...); return; }"
HandleCaptureNotReady ==
  /\ pc = "idle"
  /\ UNCHANGED others
  /\ ~CaptureReady
  /\ toasts' = Append(toasts, ErrorNotReady)
  /\ pc' = "done"
  /\ UNCHANGED <<settings, hasCameraPermission, locals, history, page,
                 isCapturingPhoto, canvas>>

\* the early return without "setIsCapturingPhoto(false)"
HandleCaptureNoContextBusy ==
  /\ pc = "idle"
  /\ UNCHANGED others
  /\ CaptureReady
  /\ toasts' = Append(toasts, ErrorNoContext)
  /\ isCapturingPhoto' = TRUE
  /\ canvas' = <<settings.width, settings.height>>
  /\ pc' = "done"
  /\ UNCHANGED <<settings, hasCameraPermission, locals, history, page>>

\* "if (!context) { toast(...); setIsCapturingPhoto(false); return; }"
HandleCaptureNoContext ==
  /\ pc = "idle"
  /\ UNCHANGED others
  /\ CaptureReady
  /\ toasts' = Append(toasts, ErrorNoContext)
  /\ isCapturingPhoto' = FALSE
  /\ canvas' = <<settings.width, settings.height>>
  /\ pc' = "done"
  /\ UNCHANGED <<settings, hasCameraPermission, locals, history, page>>

\* "(format === 'jpeg' || format === 'webp') && targetFileSizeKB > 0
\*   && initialQuality !== undefined"
SearchesNonNegative(s, q0) ==
  /\ s.format \in {"jpeg", "webp"}
  /\ s.targetFileSizeKB >= 0
  /\ q0 # UndefinedQuality

Searches(s, q0) ==
  /\ s.format \in {"jpeg", "webp"}
  /\ s.targetFileSizeKB > 0
  /\ q0 # UndefinedQuality

\* lines 272-286: hand the image to the preview and stop the camera
Handover(img, ts) ==
  /\ imageDataUrl' = img
  /\ isPreviewing' = TRUE
  /\ isCapturingPhoto' = FALSE
  /\ liveTracks' = liveTracks \ {stream, videoSrc}
  /\ stream' = NoStream
  /\ videoSrc' = NoStream
  /\ lastCapture' = img
  /\ toasts' = Append(ts, ImageCaptured)
  /\ pc' = "done"

\* the png branch: "else if (format === 'png' && targetFileSizeKB > 0)"
PngNote(img) ==
  IF /\ settings.format = "png"
     /\ settings.targetFileSizeKB > 0
     /\ getEstimatedByteSize(img) > targetSizeBytes
  THEN <<SizeNote(getEstimatedByteSize(img))>>
  ELSE <<>>

\* lines 197-241 and, when no search is made, lines 265-286
HandleCaptureEncode ==
  /\ pc = "idle"
  /\ UNCHANGED others
  /\ CaptureReady
  /\ \E b \in FirstEncodes :
       LET q0  == InitialQuality(settings.format)
           img == DataURL(MimeType(settings.format), q0, b)
       IN  /\ initialQuality' = q0
           /\ tempImageUrl' = img
           /\ firstImageUrl' = img
           /\ finalQuality' = q0
           /\ encodeCount' = encodeCount + 1
           /\ tried' = Append(tried, q0)
           /\ anyMet' = (getEstimatedByteSize(img) <= targetSizeBytes)
           /\ IF Searches(settings, q0)
              THEN /\ currentQuality' = q0
                   /\ attempts' = 0
                   /\ currentSize' = getEstimatedByteSize(img)
                   /\ isCapturingPhoto' = TRUE
                   /\ pc' = "loop"
                   /\ UNCHANGED <<toasts, page>>
              ELSE /\ Handover(img, toasts \o PngNote(img))
                   /\ UNCHANGED <<currentQuality, attempts, currentSize>>
  /\ canvas' = <<settings.width, settings.height>>
  /\ UNCHANGED <<settings, hasCameraPermission, nextImgUrl, iterations>>

\* "while (currentSize > targetSizeBytes && currentQuality > minQuality
\*         && attempts < maxAttempts)"
LoopGuardNotBelow ==
  /\ currentSize >= targetSizeBytes
  /\ QLess(minQuality, currentQuality)
  /\ attempts < MaxAttempts(initialQuality)

LoopGuard ==
  /\ currentSize > targetSizeBytes
  /\ QLess(minQuality, currentQuality)
  /\ attempts < MaxAttempts(initialQuality)

\* "nextSize < currentSize || (nextSize > currentSize && currentSize > target)"
AcceptsAlways(nextSize, size, target) == nextSize < size \/ size > target

Accepts(nextSize, size, target) ==
  nextSize < size \/ (nextSize > size /\ size > target)

\* "else if (nextSize > currentSize && currentSize <= targetSizeBytes) break"
EarlyStop(nextSize, size, target) == nextSize > size /\ size <= target

FloorBreakEither(q, size, target) == QLeq(q, minQuality) \/ size > target

\* "if (currentQuality <= minQuality && currentSize > targetSizeBytes) break"
FloorBreak(q, size, target) == QLeq(q, minQuality) /\ size > target

\* one execution of the loop body, lines 244-258
LoopIteration ==
  /\ pc = "loop"
  /\ UNCHANGED others
  /\ LoopGuard
  /\ \E b \in NextEncodes :
       LET q        == Clamp(SubtractStep(currentQuality))
           img      == DataURL(MimeType(settings.format), q, b)
           nextSize == getEstimatedByteSize(img)
           adopt    == Accepts(nextSize, currentSize, targetSizeBytes)
           stop     == ~adopt /\ EarlyStop(nextSize, currentSize, targetSizeBytes)
           size     == IF adopt THEN nextSize ELSE currentSize
       IN  /\ currentQuality' = q
           /\ nextImgUrl' = img
           /\ tempImageUrl' = IF adopt THEN img ELSE tempImageUrl
           /\ currentSize' = size
           /\ finalQuality' = IF adopt THEN q ELSE finalQuality
           /\ attempts' = IF stop THEN attempts ELSE attempts + 1
           /\ pc' = IF stop \/ FloorBreak(q, size, targetSizeBytes)
                    THEN "exit" ELSE "loop"
           /\ encodeCount' = encodeCount + 1
           /\ tried' = Append(tried, q)
           /\ anyMet' = (anyMet \/ nextSize <= targetSizeBytes)
  /\ iterations' = iterations + 1
  /\ UNCHANGED <<settings, hasCameraPermission, initialQuality, page,
                 isCapturingPhoto, toasts, firstImageUrl, canvas>>

\* lines 260-264: the notification after the loop
SizeToastAnyChange ==
  IF finalQuality # initialQuality THEN <<SizeOptimized>>
  ELSE IF currentSize > targetSizeBytes THEN <<SizeWarning>>
  ELSE <<>>

SizeToast ==
  IF currentSize > targetSizeBytes THEN <<SizeWarning>>
  ELSE IF finalQuality # initialQuality THEN <<SizeOptimized>>
  ELSE <<>>

\* the loop is left (guard false or break); lines 260-264 and 272-286
FinishCapture ==
  /\ \/ pc = "exit"
     \/ pc = "loop" /\ ~LoopGuard
  /\ Handover(tempImageUrl, toasts \o SizeToast)
  /\ UNCHANGED others
  /\ UNCHANGED <<settings, hasCameraPermission, locals, history, canvas>>

Next ==
  \/ HandleCaptureNotReady
  \/ HandleCaptureNoContext
  \/ HandleCaptureEncode
  \/ LoopIteration
  \/ FinishCapture

Spec == Init /\ [][Next]_vars

\* ============================================ getEstimatedByteSize on text
\* the characters of the strings tried: a separator, a base64 character and
\* the pad character
UriChars == {",", "A", "="}

RECURSIVE StringsUpTo(_)
StringsUpTo(n) ==
  IF n = 0 THEN {<<>>}
  ELSE LET shorter == StringsUpTo(n - 1)
       IN  shorter \cup { Append(t, c) : t \in { u \in shorter : Len(u) = n - 1 },
                                         c \in UriChars }

\* "dataUri.includes(',')"
Includes(str, c) == \E i \in 1..Len(str) : str[i] = c

\* "dataUri.substring(dataUri.indexOf(',') + 1)"
AfterFirstComma(str) ==
  LET i == CHOOSE k \in 1..Len(str) :
             str[k] = "," /\ \A j \in 1..(k - 1) : str[j] # ","
  IN  SubSeq(str, i + 1, Len(str))

\* "(base64.match(/(=*)$/) || [])[1]?.length || 0"
RECURSIVE TrailingPads(_)
TrailingPads(str) ==
  IF Len(str) = 0 \/ str[Len(str)] # "=" THEN 0
  ELSE 1 + TrailingPads(SubSeq(str, 1, Len(str) - 1))

\* what getEstimatedByteSize reads of a string
Measure(str) ==
  IF ~Includes(str, ",") THEN NoImage
  ELSE DataURL("none", UndefinedQuality,
               [len |-> Len(AfterFirstComma(str)),
                pad |-> TrailingPads(AfterFirstComma(str))])

InitEstimator ==
  /\ dataUri \in StringsUpTo(MaxUriLen)
  /\ estimate = <<>>
  /\ settings = [width |-> 1280, height |-> 720, format |-> "png",
                 targetFileSizeKB |-> 0, aspectRatioKey |-> "16:9"]
  /\ CameraSettled(FALSE)
  /\ HandlerIdle
  /\ AnyEncoder

\* a call "getEstimatedByteSize(dataUri)"
Estimate ==
  /\ estimate = <<>>
  /\ estimate' = <<getEstimatedByteSize(Measure(dataUri))>>
  /\ UNCHANGED <<settings, hasCameraPermission, pc, locals, history, page,
                 isCapturingPhoto, toasts, dataUri, encoder, canvas, camera,
                 config, apart>>

NextEstimator == Estimate

SpecEstimator == InitEstimator /\ [][NextEstimator]_vars

\* ================================== handleCapture with a shrinking encoder
\* a ready page set for JPEG with a target next to 100000 bytes (97 KB is
\* 99328 bytes, 98 KB is 100352 bytes) and the encoder that starts at 500000
\* bytes and loses 15% per step
InitScenario ==
  /\ settings \in [width : {1280}, height : {720}, format : {"jpeg"},
                   targetFileSizeKB : {97, 98}, aspectRatioKey : {"16:9"}]
  /\ CameraSettled(TRUE)
  /\ HandlerIdle
  /\ EstimatorOff
  /\ encoder = "shrinking"

NextScenario ==
  \/ HandleCaptureEncode
  \/ LoopIteration
  \/ FinishCapture

SpecScenario == InitScenario /\ [][NextScenario]_vars

\* ========================================================= the preview page
\* "parseInt(text, 10)": leading blanks, a sign, then the leading digits
NaN == [nan |-> TRUE, n |-> 0]
Number(n) == [nan |-> FALSE, n |-> n]

RECURSIVE TrimLeft(_)
TrimLeft(text) ==
  IF text # <<>> /\ Head(text) = " " THEN TrimLeft(Tail(text)) ELSE text

RECURSIVE LeadingDigits(_)
LeadingDigits(text) ==
  IF text # <<>> /\ IsDigit(Head(text))
  THEN <<Head(text)>> \o LeadingDigits(Tail(text))
  ELSE <<>>

RECURSIVE DigitsValue(_)
DigitsValue(ds) ==
  IF ds = <<>> THEN 0
  ELSE 10 * DigitsValue(SubSeq(ds, 1, Len(ds) - 1)) + DigitValue(ds[Len(ds)])

ParseInt(text) ==
  LET t      == TrimLeft(text)
      signed == t # <<>> /\ Head(t) \in {"-", "+"}
      ds     == LeadingDigits(IF signed THEN Tail(t) ELSE t)
  IN  IF ds = <<>> THEN NaN
      ELSE IF signed /\ Head(t) = "-" THEN Number(0 - DigitsValue(ds))
      ELSE Number(DigitsValue(ds))

\* "useState<PixsnapSettings | null>(null)"
NoSettings == [width |-> 0, height |-> 0, format |-> "null",
               targetFileSizeKB |-> 0, aspectRatioKey |-> "null"]

SettingsError(description) ==
  Toast("Settings Error", description, NoValue, NoValue, NoValue)

\* the effect that loads the settings, lines 44-82: what it sets
ParsedSettingsAnyFormat(params) ==
  IF /\ Truthy(params.width) /\ Truthy(params.height) /\ Truthy(params.format)
     /\ Truthy(params.aspectRatioKey) /\ Truthy(params.targetFileSizeKB)
     /\ ~ParseInt(params.width.text).nan
     /\ ~ParseInt(params.height.text).nan
     /\ ~ParseInt(params.targetFileSizeKB.text).nan
  THEN [settings |-> [width |-> ParseInt(params.width.text).n,
                      height |-> ParseInt(params.height.text).n,
                      format |-> Head(params.format.text),
                      targetFileSizeKB |-> ParseInt(params.targetFileSizeKB.text).n,
                      aspectRatioKey |-> Head(params.aspectRatioKey.text)],
        error |-> NoError,
        toast |-> <<>>]
  ELSE [settings |-> NoSettings,
        error |-> "Capture settings not found or incomplete in URL. Please configure them on the main page and try again.",
        toast |-> <<SettingsError("Incomplete settings provided via URL.")>>]

ParsedSettings(params) ==
  IF /\ Truthy(params.width) /\ Truthy(params.height) /\ Truthy(params.format)
     /\ Truthy(params.aspectRatioKey) /\ Truthy(params.targetFileSizeKB)
  THEN LET w == ParseInt(params.width.text)
           h == ParseInt(params.height.text)
           t == ParseInt(params.targetFileSizeKB.text)
           f == Head(params.format.text)
       IN  IF w.nan \/ h.nan \/ t.nan
           THEN [settings |-> NoSettings,
                 error |-> "Error loading settings: Invalid number format in URL parameters.. Please close this window, reconfigure on the main page, and try again.",
                 toast |-> <<SettingsError("Invalid settings format: Invalid number format in URL parameters.")>>]
           ELSE IF Len(params.format.text) # 1 \/ f \notin Formats
           THEN [settings |-> NoSettings,
                 error |-> "Error loading settings: Invalid format in URL parameters.. Please close this window, reconfigure on the main page, and try again.",
                 toast |-> <<SettingsError("Invalid settings format: Invalid format in URL parameters.")>>]
           ELSE [settings |-> [width |-> w.n, height |-> h.n, format |-> f,
                               targetFileSizeKB |-> t.n,
                               aspectRatioKey |-> Head(params.aspectRatioKey.text)],
                 error |-> NoError,
                 toast |-> <<>>]
  ELSE [settings |-> NoSettings,
        error |-> "Capture settings not found or incomplete in URL. Please configure them on the main page and try again.",
        toast |-> <<SettingsError("Incomplete settings provided via URL.")>>]

\* the query strings the preview window is opened with
PageParams ==
  [width : {Absent, Param(<<"0">>), Param(<<"2">>), Param(<<"x">>)},
   height : {Param(<<"3">>), Param(<<"-", "1">>)},
   format : {Param(<<"jpeg">>), Param(<<"png">>), Param(<<"gif">>)},
   aspectRatioKey : {Param(<<"16:9">>)},
   targetFileSizeKB : {Param(<<"0">>), Param(<<"1">>)}]

\* the page as first rendered: "Loading settings..."
FirstRender ==
  /\ settings = NoSettings
  /\ isLoadingSettings = TRUE
  /\ stream = NoStream
  /\ hasCameraPermission = "null"
  /\ webcamError = NoError
  /\ isLoadingCamera = TRUE
  /\ availableCameras = 0
  /\ currentCameraIndex = 0
  /\ runs = {}
  /\ initCalls = 0
  /\ closureStream = NoStream
  /\ cleanupStream = NoStream
  /\ videoSrc = NoStream
  /\ liveTracks = {}
  /\ canvas = DefaultCanvas
  /\ imageDataUrl = NoImage
  /\ isPreviewing = FALSE
  /\ lastCapture = NoImage
  /\ download = NoDownload
  /\ HandlerIdle
  /\ EstimatorOff

\* the preview window just opened on some query string
InitPage ==
  /\ searchParams \in PageParams
  /\ cameras \in 0..MaxCameras
  /\ FirstRender
  /\ encoder = "steady"
  /\ ConfigUntouched
  /\ previewOpen = TRUE
  /\ ApartOff

\* the state of a handler that is not handleCapture
handler == <<pc, locals, history, isCapturingPhoto>>
\* what no step of the camera side changes
fixed == <<dataUri, estimate, encoder, searchParams, cameras, canvas,
           lastCapture, config, apart>>

\* initializeCamera up to its first await, lines 85-106, called n times in a
\* row by closures that hold cs as "stream"; mounted tells whether
\* videoRef.current is set, stopped are streams stopped just before
InitializeCamera(n, cs, mounted, stopped, index) ==
  /\ isLoadingCamera' = TRUE
  /\ webcamError' = NoError
  /\ hasCameraPermission' = "null"
  /\ isPreviewing' = FALSE
  /\ imageDataUrl' = NoImage
  /\ stream' = IF cs # NoStream THEN NoStream ELSE stream
  /\ liveTracks' = liveTracks \ ({cs} \cup stopped
                                  \cup IF mounted THEN {videoSrc} ELSE {})
  /\ videoSrc' = IF mounted THEN NoStream ELSE videoSrc
  /\ runs' = runs \cup { [id |-> initCalls + i, phase |-> "enumerate",
                          index |-> index] : i \in 1..n }
  /\ initCalls' = initCalls + n

\* the first render and its effects: the settings are read from the query
\* string (lines 44-82); when they are accepted the next render runs the
\* effect of lines 166-182, which calls initializeCamera
LoadSettings ==
  /\ pc = "idle"
  /\ previewOpen
  /\ isLoadingSettings
  /\ ParsedSettings(searchParams).settings # NoSettings
  /\ settings' = ParsedSettings(searchParams).settings
  /\ isLoadingSettings' = FALSE
  /\ InitializeCamera(1, NoStream, TRUE, {}, currentCameraIndex)
  /\ closureStream' = NoStream
  /\ cleanupStream' = NoStream
  /\ UNCHANGED <<handler, toasts, fixed, availableCameras, currentCameraIndex,
                 download>>

\* the settings are missing or malformed: the error screen
LoadSettingsFails ==
  /\ pc = "idle"
  /\ previewOpen
  /\ isLoadingSettings
  /\ ParsedSettings(searchParams).settings = NoSettings
  /\ settings' = NoSettings
  /\ webcamError' = ParsedSettings(searchParams).error
  /\ toasts' = ParsedSettings(searchParams).toast
  /\ isLoadingSettings' = FALSE
  /\ UNCHANGED <<handler, fixed, stream, hasCameraPermission, imageDataUrl,
                 isPreviewing, videoSrc, liveTracks, isLoadingCamera,
                 availableCameras, currentCameraIndex, runs, initCalls,
                 closureStream, cleanupStream, download>>

\* "await navigator.mediaDevices.enumerateDevices()" resolves, lines 107-122
EnumerateResolves(run) ==
  /\ pc = "idle"
  /\ run \in runs
  /\ run.phase = "enumerate"
  /\ availableCameras' = cameras
  /\ IF cameras = 0
     THEN /\ webcamError' = "No video cameras found on this device."
          /\ hasCameraPermission' = "false"
          /\ isLoadingCamera' = FALSE
          /\ runs' = runs \ {run}
     ELSE /\ runs' = (runs \ {run}) \cup {[run EXCEPT !.phase = "getUserMedia"]}
          /\ UNCHANGED <<webcamError, hasCameraPermission, isLoadingCamera>>
  /\ UNCHANGED <<handler, toasts, fixed, settings, stream, imageDataUrl,
                 isPreviewing, videoSrc, liveTracks, isLoadingSettings,
                 currentCameraIndex, initCalls, closureStream, cleanupStream,
                 download>>

\* "await navigator.mediaDevices.getUserMedia(constraints)" resolves with a
\* new stream, lines 124-152; videoRef.current is set while the video element
\* is rendered, that is while not previewing
GetUserMediaResolves(run) ==
  /\ pc = "idle"
  /\ run \in runs
  /\ run.phase = "getUserMedia"
  /\ stream' = run.id
  /\ liveTracks' = liveTracks \cup {run.id}
  /\ hasCameraPermission' = "true"
  /\ videoSrc' = IF isPreviewing THEN videoSrc ELSE run.id
  /\ isLoadingCamera' = FALSE
  /\ runs' = runs \ {run}
  /\ UNCHANGED <<handler, toasts, fixed, settings, imageDataUrl, isPreviewing,
                 isLoadingSettings, webcamError, availableCameras,
                 currentCameraIndex, initCalls, closureStream, cleanupStream,
                 download>>

\* either await rejects with an error of this name: the catch block,
\* lines 153-163
InitRejects(run, name) ==
  /\ pc = "idle"
  /\ run \in runs
  /\ hasCameraPermission' = "false"
  /\ webcamError' = ErrorDescription(name)
  /\ isLoadingCamera' = FALSE
  /\ stream' = NoStream
  /\ runs' = runs \ {run}
  /\ UNCHANGED <<handler, toasts, fixed, settings, imageDataUrl, isPreviewing,
                 videoSrc, liveTracks, isLoadingSettings, availableCameras,
                 currentCameraIndex, initCalls, closureStream, cleanupStream,
                 download>>

\* the condition under which the capture and switch buttons are rendered,
\* lines 438-439, and enabled
ControlsShown ==
  /\ settings # NoSettings
  /\ ~isLoadingSettings
  /\ ~isPreviewing
  /\ stream # NoStream
  /\ hasCameraPermission = "true"
  /\ webcamError = NoError
  /\ ~isLoadingCamera
  /\ ~isCapturingPhoto

\* a click on "Switch Camera": handleSwitchCamera, then the render with the
\* new currentCameraIndex, in which initializeCamera is a new closure, the
\* cleanup of the effect of lines 166-182 runs, and that effect and the one of
\* lines 329-336 both call initializeCamera
HandleSwitchCamera ==
  /\ pc = "idle"
  /\ ControlsShown
  /\ availableCameras > 1
  /\ initCalls + 2 <= MaxInitCalls
  /\ currentCameraIndex' = (currentCameraIndex + 1) % availableCameras
  /\ closureStream' = stream
  /\ cleanupStream' = stream
  /\ InitializeCamera(2, stream, TRUE, {cleanupStream},
                      (currentCameraIndex + 1) % availableCameras)
  /\ UNCHANGED <<handler, toasts, fixed, settings, isLoadingSettings,
                 availableCameras, download>>

\* a click on "Retake": handleRetake, lines 303-310; the video element is not
\* rendered while previewing
HandleRetake ==
  /\ pc = "idle"
  /\ settings # NoSettings
  /\ isPreviewing
  /\ imageDataUrl # NoImage
  /\ initCalls + 1 <= MaxInitCalls
  /\ InitializeCamera(1, closureStream, FALSE, {}, currentCameraIndex)
  /\ UNCHANGED <<handler, toasts, fixed, settings, isLoadingSettings,
                 availableCameras, currentCameraIndex, closureStream,
                 cleanupStream, download>>

\* "pixsnap_image_${settings.width}x${settings.height}.${settings.format}"
FileNameSwapped(s) ==
  <<"pixsnap_image_">> \o Decimal(s.height) \o <<"x">> \o Decimal(s.width)
    \o <<".">> \o <<s.format>>

FileName(s) ==
  <<"pixsnap_image_">> \o Decimal(s.width) \o <<"x">> \o Decimal(s.height)
    \o <<".">> \o <<s.format>>

DownloadError ==
  Toast("Download Error", "Image data not available.",
        NoValue, NoValue, NoValue)
DownloadStarted ==
  Toast("Download Started", "Image saved as.", NoValue, NoValue, NoValue)

\* handleDownload with an image, lines 294-300
HandleDownload ==
  /\ pc = "idle"
  /\ settings # NoSettings
  /\ imageDataUrl # NoImage
  /\ download' = [href |-> imageDataUrl, name |-> FileName(settings)]
  /\ toasts' = <<DownloadStarted>>
  /\ pc' = "done"
  /\ UNCHANGED <<locals, history, isCapturingPhoto, fixed, settings, stream,
                 hasCameraPermission, imageDataUrl, isPreviewing, videoSrc,
                 liveTracks, isLoadingSettings, webcamError, isLoadingCamera,
                 availableCameras, currentCameraIndex, runs, initCalls,
                 closureStream, cleanupStream>>

\* handleDownload without an image, lines 290-293
HandleDownloadNoImage ==
  /\ pc = "idle"
  /\ ~isLoadingSettings
  /\ imageDataUrl = NoImage \/ settings = NoSettings
  /\ toasts' = <<DownloadError>>
  /\ pc' = "done"
  /\ UNCHANGED <<locals, history, isCapturingPhoto, fixed, settings, stream,
                 hasCameraPermission, imageDataUrl, isPreviewing, videoSrc,
                 liveTracks, isLoadingSettings, webcamError, isLoadingCamera,
                 availableCameras, currentCameraIndex, runs, initCalls,
                 closureStream, cleanupStream, download>>

\* a click on "Capture Photo" that gets a 2D context
ClickCapture == ControlsShown /\ HandleCaptureEncode

\* a click on "Capture Photo" for which canvas.getContext('2d') returns null
ClickCaptureNoContext == ControlsShown /\ HandleCaptureNoContext

\* the handler has returned; the page is rendered again and waits for the
\* next event
Render ==
  /\ pc = "done"
  /\ pc' = "idle"
  /\ initialQuality' = UndefinedQuality
  /\ tempImageUrl' = NoImage
  /\ finalQuality' = UndefinedQuality
  /\ currentQuality' = UndefinedQuality
  /\ attempts' = 0
  /\ currentSize' = 0
  /\ nextImgUrl' = NoImage
  /\ isCapturingPhoto' = FALSE
  /\ toasts' = <<>>
  /\ encodeCount' = 0
  /\ iterations' = 0
  /\ anyMet' = FALSE
  /\ firstImageUrl' = NoImage
  /\ tried' = <<>>
  /\ UNCHANGED <<settings, hasCameraPermission, page, canvas, others>>

NextPage ==
  \/ LoadSettings
  \/ LoadSettingsFails
  \/ \E run \in runs : EnumerateResolves(run)
  \/ \E run \in runs : GetUserMediaResolves(run)
  \/ \E run \in runs, name \in ErrorNames : InitRejects(run, name)
  \/ HandleSwitchCamera
  \/ HandleRetake
  \/ HandleDownload
  \/ HandleDownloadNoImage
  \/ ClickCapture
  \/ ClickCaptureNoContext
  \/ LoopIteration
  \/ FinishCapture
  \/ Render

SpecPage == InitPage /\ [][NextPage]_vars

\* ============================== from the configuration page to the preview
\* a query string without parameters: "/preview"
NoParams ==
  [width |-> Absent, height |-> Absent, format |-> Absent,
   aspectRatioKey |-> Absent, targetFileSizeKB |-> Absent]

\* "JSON.stringify(settings)" of handleOpenCameraAndCapture
Stringify(s) ==
  <<"{", "\"aspectRatioKey\":", "\"", s.aspectRatioKey, "\"", ",",
    "\"width\":">> \o Decimal(s.width) \o <<",", "\"height\":">>
    \o Decimal(s.height) \o <<",", "\"format\":", "\"", s.format, "\"", ",",
    "\"targetFileSizeKB\":">> \o Decimal(s.targetFileSizeKB) \o <<"}">>

\* "Math.max(1, Math.round(width / (16 / 9)))"
HeightFor(w) ==
  LET rounded == (18 * w + 16) \div 32
  IN  IF rounded < 1 THEN 1 ELSE rounded

PopupBlocked ==
  Toast("Popup Blocked", "Please allow popups for this site to open the camera.",
        NoValue, NoValue, NoValue)
CameraOpening ==
  Toast("Camera Opening...", "Configure capture settings in the new window.",
        NoValue, NoValue, NoValue)

\* the configuration page after some edits of its inputs, no preview window yet
InitTransport ==
  /\ customWidth \in {1, 1280}
  /\ customHeight \in {1, 720}
  /\ selectedAspectRatio \in
       IF customHeight = HeightFor(customWidth) THEN {"16:9", "custom"}
       ELSE {"custom"}
  /\ outputFormat \in Formats
  /\ targetFileSizeKB \in {0, 100}
  /\ sessionStorage = <<>>
  /\ emitted = NoSettings
  /\ previewOpen = FALSE
  /\ searchParams = NoParams
  /\ cameras = 1
  /\ FirstRender
  /\ encoder = "steady"
  /\ ApartOff

\* a click on "Open Camera", lines 504-526 of pixsnap-client.tsx: the
\* settings go to sessionStorage and the window is opened on "/preview";
\* the window may be blocked, and window.open may return null for a window
\* it opened ('noopener')
HandleOpenCameraAndCapture ==
  /\ pc = "idle"
  /\ ~previewOpen
  /\ sessionStorage = <<>>
  /\ LET s == [aspectRatioKey |-> selectedAspectRatio, width |-> customWidth,
               height |-> customHeight, format |-> outputFormat,
               targetFileSizeKB |-> targetFileSizeKB]
     IN  /\ emitted' = s
         /\ sessionStorage' = Stringify(s)
  /\ searchParams' = NoParams
  /\ \E opened \in BOOLEAN :
       /\ previewOpen' = opened
       /\ \E returned \in {FALSE, opened} :
            toasts' = <<IF returned THEN CameraOpening ELSE PopupBlocked>>
  /\ UNCHANGED <<handler, dataUri, estimate, encoder, cameras, canvas,
                 lastCapture, selectedAspectRatio, customWidth, customHeight,
                 outputFormat, targetFileSizeKB, settings, stream,
                 hasCameraPermission, imageDataUrl, isPreviewing, videoSrc,
                 liveTracks, isLoadingSettings, webcamError, isLoadingCamera,
                 availableCameras, currentCameraIndex, runs, initCalls,
                 closureStream, cleanupStream, download, apart>>

\* the preview page is opened directly, on a URL with a query string
NavigateToPreview ==
  /\ pc = "idle"
  /\ ~previewOpen
  /\ sessionStorage = <<>>
  /\ searchParams' \in PageParams
  /\ previewOpen' = TRUE
  /\ UNCHANGED <<handler, toasts, dataUri, estimate, encoder, cameras, canvas,
                 lastCapture, selectedAspectRatio, customWidth, customHeight,
                 outputFormat, targetFileSizeKB, sessionStorage, emitted,
                 settings, stream, hasCameraPermission, imageDataUrl,
                 isPreviewing, videoSrc, liveTracks, isLoadingSettings,
                 webcamError, isLoadingCamera, availableCameras,
                 currentCameraIndex, runs, initCalls, closureStream,
                 cleanupStream, download, apart>>

NextTransport ==
  \/ HandleOpenCameraAndCapture
  \/ NavigateToPreview
  \/ LoadSettings
  \/ LoadSettingsFails

SpecTransport == InitTransport /\ [][NextTransport]_vars

\* ============================================= the configuration form
\* ASPECT_RATIOS, lines 447-454 of pixsnap-client.tsx: ratioWbyH as the
\* fraction <<W, H>>, <<0, 0>> for the null of 'custom'
AspectRatioKeys == {"16:9", "9:16", "4:3", "3:4", "1:1", "custom"}
ratioWbyH(key) ==
  CASE key = "16:9" -> <<16, 9>>
    [] key = "9:16" -> <<9, 16>>
    [] key = "4:3" -> <<4, 3>>
    [] key = "3:4" -> <<3, 4>>
    [] key = "1:1" -> <<1, 1>>
    [] OTHER -> <<0, 0>>

\* "Math.max(1, Math.round(w / ratio))": Math.round takes the nearest
\* integer, halves upwards; for widths up to 20000 the double w / ratio
\* rounds to the same integer as the exact quotient
RoundRatioDown(w, ratio) ==
  LET h == (w * ratio[2]) \div ratio[1]
  IN  IF h < 1 THEN 1 ELSE h

RoundRatio(w, ratio) ==
  LET h == (2 * w * ratio[2] + ratio[1]) \div (2 * ratio[1])
  IN  IF h < 1 THEN 1 ELSE h

\* "isNaN(newNumericValue) ? 1 : Math.max(1, newNumericValue)"
AtLeastOne(parsed) == IF parsed.nan \/ parsed.n < 1 THEN 1 ELSE parsed.n

\* the texts typed into the width and height inputs
WidthTexts == {<<>>, <<"0">>, <<"8">>}
HeightTexts == {<<"x">>, <<"5">>}
FileSizeTexts == {<<"-", "4">>, <<"1">>}

\* what the handlers of the form leave alone
outside == <<settings, hasCameraPermission, pc, locals, history, page,
             isCapturingPhoto, toasts, dataUri, estimate, encoder, canvas,
             camera, apart, sessionStorage, previewOpen, emitted>>

\* handleAspectRatioChange, lines 470-477
HandleAspectRatioChange(newAspectRatioKey) ==
  /\ selectedAspectRatio' = newAspectRatioKey
  /\ customHeight' =
       IF newAspectRatioKey # "custom"
          /\ ratioWbyH(newAspectRatioKey) # <<0, 0>>
       THEN RoundRatio(IF customWidth = 0 THEN 1280 ELSE customWidth,
                       ratioWbyH(newAspectRatioKey))
       ELSE customHeight
  /\ UNCHANGED <<outside, customWidth, outputFormat, targetFileSizeKB>>

\* handleWidthChange, lines 479-489
HandleWidthChange(rawValue) ==
  LET newWidthState == AtLeastOne(ParseInt(rawValue))
  IN  /\ customWidth' = newWidthState
      /\ customHeight' =
           IF selectedAspectRatio # "custom"
              /\ ratioWbyH(selectedAspectRatio) # <<0, 0>>
           THEN RoundRatio(newWidthState, ratioWbyH(selectedAspectRatio))
           ELSE customHeight
      /\ UNCHANGED <<outside, selectedAspectRatio, outputFormat,
                     targetFileSizeKB>>

\* handleHeightChange, lines 491-497
HandleHeightChange(rawValue) ==
  /\ customHeight' = AtLeastOne(ParseInt(rawValue))
  /\ selectedAspectRatio' = "custom"
  /\ UNCHANGED <<outside, customWidth, outputFormat, targetFileSizeKB>>

\* handleFileSizeChange, lines 499-502; the input is disabled for png
HandleFileSizeChange(rawValue) ==
  /\ outputFormat # "png"
  /\ LET val == ParseInt(rawValue)
     IN  targetFileSizeKB' = IF val.nan \/ val.n < 0 THEN 0 ELSE val.n
  /\ UNCHANGED <<outside, selectedAspectRatio, customWidth, customHeight,
                 outputFormat>>

\* "onValueChange={(value) => setOutputFormat(value as OutputFormat)}"
SetOutputFormat(value) ==
  /\ outputFormat' = value
  /\ UNCHANGED <<outside, selectedAspectRatio, customWidth, customHeight,
                 targetFileSizeKB>>

\* the configuration page as constructed, no preview window
InitConfig ==
  /\ ConfigUntouched
  /\ previewOpen = FALSE
  /\ settings = NoSettings
  /\ searchParams = NoParams
  /\ cameras = 1
  /\ FirstRender
  /\ encoder = "steady"
  /\ ApartOff

NextConfig ==
  \/ \E key \in AspectRatioKeys : HandleAspectRatioChange(key)
  \/ \E text \in WidthTexts : HandleWidthChange(text)
  \/ \E text \in HeightTexts : HandleHeightChange(text)
  \/ \E text \in FileSizeTexts : HandleFileSizeChange(text)
  \/ \E value \in Formats : SetOutputFormat(value)

SpecConfig == InitConfig /\ [][NextConfig]_vars

\* ============================================ the single-page component
\* PixsnapClient of src/unnamed/part_001: the form, the camera, the capture
\* and the download on one page.  The copy of this component in
\* generate-image-name-flow.ts (lines 112-572) differs in the dependency
\* list of initializeCamera, which holds "stream" there (line 229) and not in
\* part_001 (line 154); streamInDeps tells which of the two is mounted.
\* Not modelled: the notifications, the size search inside handleCapture
\* (an image is kept as its mime type and dimensions), handleSwitchCamera,
\* handleFileSizeChange and the onerror handler of the video element.

\* the catch block, lines 132-152; the text for OverconstrainedError, which
\* embeds the dimensions (line 143), is left out and no such rejection is drawn
ErrorDescriptionSingle(name) ==
  CASE name = "NotAllowedError" ->
         "Camera access was denied. Please enable camera permissions in your browser settings."
    [] name \in {"NotFoundError", "DevicesNotFoundError"} ->
         "No camera was found. Please ensure a camera is connected and enabled."
    [] name \in {"NotReadableError", "TrackStartError"} ->
         "The camera is currently in use by another application or a hardware error occurred."
    [] OTHER -> "Could not access webcam. Please ensure permissions are granted."

\* "currentDimensions", lines 57-59
currentDimensions ==
  [width |-> IF customWidth < 1 THEN 1 ELSE customWidth,
   height |-> IF customHeight < 1 THEN 1 ELSE customHeight]

\* a MediaStream that is none of those the page still refers to
FreshStream ==
  CHOOSE id \in 1..MaxStreams :
    id \notin {stream, videoSrc, closureStream, cleanupStream} \cup liveTracks

\* the component after its first render and the effect of lines 156-162,
\* which has called initializeCamera (lines 90-95, up to the first await)
InitSingle ==
  /\ streamInDeps \in BOOLEAN
  /\ cameras \in 0..MaxCameras
  /\ ConfigUntouched
  /\ capturedImage = NoCapture
  /\ isLoading = TRUE
  /\ stream = NoStream
  /\ webcamError = NoError
  /\ hasCameraPermission = "null"
  /\ availableCameras = 0
  /\ currentCameraIndex = 0
  /\ runs = {[id |-> 1, phase |-> "enumerate", index |-> 0]}
  /\ closureStream = NoStream
  /\ cleanupStream = NoStream
  /\ videoSrc = NoStream
  /\ liveTracks = {}
  /\ canvas = DefaultCanvas
  /\ download = NoDownload
  /\ settings = NoSettings
  /\ searchParams = NoParams
  /\ isLoadingSettings = FALSE
  /\ isLoadingCamera = FALSE
  /\ initCalls = 0
  /\ imageDataUrl = NoImage
  /\ isPreviewing = FALSE
  /\ lastCapture = NoImage
  /\ previewOpen = FALSE
  /\ encoder = "steady"
  /\ HandlerIdle
  /\ EstimatorOff
  /\ output = NotCalled
  /\ flowReturn = NotCalled

\* what no step of the single page changes, the form apart
still == <<settings, locals, history, isCapturingPhoto, toasts, dataUri,
           estimate, encoder, imageDataUrl, isPreviewing, lastCapture,
           searchParams, isLoadingSettings, isLoadingCamera,
           currentCameraIndex, initCalls, cameras, streamInDeps, output,
           flowReturn, sessionStorage, previewOpen, emitted>>
form == <<selectedAspectRatio, customWidth, customHeight, outputFormat,
          targetFileSizeKB>>

\* "await navigator.mediaDevices.enumerateDevices()" resolves, lines 95-114:
\* without a camera the call ends; otherwise the stream the callback closed
\* over is stopped and getUserMedia is awaited
EnumerateResolvesSingle(run) ==
  /\ pc = "idle"
  /\ run \in runs
  /\ run.phase = "enumerate"
  /\ availableCameras' = cameras
  /\ IF cameras = 0
     THEN /\ webcamError' = "No video cameras found on this device."
          /\ hasCameraPermission' = "false"
          /\ isLoading' = FALSE
          /\ runs' = runs \ {run}
          /\ UNCHANGED liveTracks
     ELSE /\ liveTracks' = liveTracks \ {closureStream}
          /\ runs' = (runs \ {run}) \cup {[run EXCEPT !.phase = "getUserMedia"]}
          /\ UNCHANGED <<webcamError, hasCameraPermission, isLoading>>
  /\ UNCHANGED <<still, form, pc, stream, videoSrc, closureStream,
                 cleanupStream, capturedImage, canvas, download>>

\* "await navigator.mediaDevices.getUserMedia(constraints)" resolves, lines
\* 116-131, and the page is rendered with the new stream.  With stream among
\* the dependencies initializeCamera is then a new callback, so the effect
\* of lines 156-162 runs again: its cleanup stops the stream of the previous
\* render and initializeCamera is called once more (lines 90-95).
GetUserMediaResolvesSingle(run) ==
  /\ pc = "idle"
  /\ run \in runs
  /\ run.phase = "getUserMedia"
  /\ stream' = FreshStream
  /\ hasCameraPermission' = "true"
  /\ videoSrc' = FreshStream
  /\ IF streamInDeps
     THEN /\ liveTracks' = (liveTracks \ {cleanupStream}) \cup {FreshStream}
          /\ closureStream' = FreshStream
          /\ cleanupStream' = FreshStream
          /\ isLoading' = TRUE
          /\ webcamError' = NoError
          /\ runs' = (runs \ {run}) \cup {[run EXCEPT !.phase = "enumerate"]}
          /\ UNCHANGED capturedImage
     ELSE /\ liveTracks' = liveTracks \cup {FreshStream}
          /\ runs' = runs \ {run}
          /\ UNCHANGED <<isLoading, webcamError, capturedImage, closureStream,
                         cleanupStream>>
  /\ UNCHANGED <<still, form, pc, availableCameras, canvas, download>>

\* either await rejects: the catch block, lines 132-152
InitRejectsSingle(run, name) ==
  /\ pc = "idle"
  /\ run \in runs
  /\ hasCameraPermission' = "false"
  /\ webcamError' = ErrorDescriptionSingle(name)
  /\ isLoading' = FALSE
  /\ runs' = runs \ {run}
  /\ UNCHANGED <<still, form, pc, stream, videoSrc, liveTracks,
                 availableCameras, closureStream, cleanupStream,
                 capturedImage, canvas, download>>

\* the video element fires "loadedmetadata" for the stream it was given:
\* the handler of lines 121-123
VideoLoadedMetadata ==
  /\ pc = "idle"
  /\ videoSrc # NoStream
  /\ isLoading
  /\ isLoading' = FALSE
  /\ UNCHANGED <<still, form, pc, stream, hasCameraPermission, webcamError,
                 videoSrc, liveTracks, availableCameras, runs, closureStream,
                 cleanupStream, capturedImage, canvas, download>>

\* "const isControlDisabled = isLoading || isCapturingPhoto", line 303
isControlDisabled == isLoading \/ isCapturingPhoto

\* an input of the form is used; the inputs are disabled with the controls
EditForm(change) ==
  /\ pc = "idle"
  /\ ~isControlDisabled
  /\ change

\* the condition under which the "Capture" button is shown and enabled,
\* lines 471-475
CaptureEnabled ==
  /\ capturedImage = NoCapture
  /\ stream # NoStream
  /\ hasCameraPermission = "true"
  /\ ~isControlDisabled
  /\ webcamError = NoError

\* handleCapture of part_001, lines 172-272: the canvas encodes
\* "canvas.toDataURL(imageMimeType, ...)" at the dimensions of lines 181-182
HandleCaptureSingle ==
  /\ pc = "idle"
  /\ ~streamInDeps
  /\ CaptureEnabled
  /\ canvas' = <<currentDimensions.width, currentDimensions.height>>
  /\ capturedImage' = [mime |-> MimeType(outputFormat),
                        width |-> currentDimensions.width,
                        height |-> currentDimensions.height]
  /\ UNCHANGED <<still, form, pc, stream, hasCameraPermission, webcamError,
                 videoSrc, liveTracks, availableCameras, runs, closureStream,
                 cleanupStream, isLoading, download>>

\* handleCapture when "canvas.getContext('2d')" returns null, lines 184-189
HandleCaptureSingleNoContext ==
  /\ pc = "idle"
  /\ ~streamInDeps
  /\ CaptureEnabled
  /\ canvas' = <<currentDimensions.width, currentDimensions.height>>
  /\ UNCHANGED <<still, form, pc, stream, hasCameraPermission, webcamError,
                 videoSrc, liveTracks, availableCameras, runs, closureStream,
                 cleanupStream, isLoading, download, capturedImage>>

\* "pixsnap_image_${currentDimensions.width}x${currentDimensions.height}.${outputFormat}"
FileNameSingle(dimensions, format) ==
  <<"pixsnap_image_">> \o Decimal(dimensions.width) \o <<"x">>
    \o Decimal(dimensions.height) \o <<".">> \o <<format>>

\* handleDownload of part_001, lines 274-286; the button is shown with an
\* image only.  The link is clicked and removed; download holds it until
\* the handler has returned.
HandleDownloadSingle ==
  /\ pc = "idle"
  /\ capturedImage # NoCapture
  /\ ~isControlDisabled
  /\ download' = [href |-> capturedImage,
                  name |-> FileNameSingle(currentDimensions, outputFormat)]
  /\ pc' = "done"
  /\ UNCHANGED <<still, form, stream, hasCameraPermission, webcamError,
                 videoSrc, liveTracks, availableCameras, runs, closureStream,
                 cleanupStream, isLoading, capturedImage, canvas>>

\* the handler has returned
RenderSingle ==
  /\ pc = "done"
  /\ pc' = "idle"
  /\ download' = NoDownload
  /\ UNCHANGED <<still, form, stream, hasCameraPermission, webcamError,
                 videoSrc, liveTracks, availableCameras, runs, closureStream,
                 cleanupStream, isLoading, capturedImage, canvas>>

\* handleRetake of part_001, lines 288-290
HandleRetakeSingle ==
  /\ pc = "idle"
  /\ capturedImage # NoCapture
  /\ ~isControlDisabled
  /\ capturedImage' = NoCapture
  /\ UNCHANGED <<still, form, pc, stream, hasCameraPermission, webcamError,
                 videoSrc, liveTracks, availableCameras, runs, closureStream,
                 cleanupStream, isLoading, canvas, download>>

\* the steps of the camera, which need no user
NextMount ==
  \/ \E run \in runs : EnumerateResolvesSingle(run)
  \/ \E run \in runs : GetUserMediaResolvesSingle(run)
  \/ \E run \in runs, name \in {"NotAllowedError", "NotFoundError",
                                 "NotReadableError", "AbortError"} :
       InitRejectsSingle(run, name)
  \/ VideoLoadedMetadata

NextSingle ==
  \/ NextMount
  \/ \E key \in {"1:1", "custom"} : EditForm(HandleAspectRatioChange(key))
  \/ EditForm(HandleWidthChange(<<"8">>))
  \/ EditForm(HandleHeightChange(<<"5">>))
  \/ \E value \in Formats : EditForm(SetOutputFormat(value))
  \/ HandleCaptureSingle
  \/ HandleCaptureSingleNoContext
  \/ HandleDownloadSingle
  \/ RenderSingle
  \/ HandleRetakeSingle

SpecSingle == InitSingle /\ [][NextSingle]_vars

\* the component left alone after it was mounted: a pending promise is
\* settled and a stream that plays fires its event
SpecMount ==
  /\ InitSingle
  /\ [][NextMount]_vars
  /\ WF_vars(\E run \in runs : EnumerateResolvesSingle(run))
  /\ WF_vars(\E run \in runs : GetUserMediaResolvesSingle(run))
  /\ WF_vars(VideoLoadedMetadata)

\* ========================================================= the naming flow
\* generateImageName, src/src/ai/flows/generate-image-name-flow.ts lines
\* 33-72.  The answer of the prompt is [kind, text]: the call was rejected,
\* it resolved without an output ("null"), or it resolved with an output
\* whose suggestedNamePrefix is text.
\* Its return is [kind, text]: it returned the prefix text, or it threw.

\* a blank, a punctuation mark, a letter, a digit and the underscore
PrefixChars == {" ", "-", "a", "7", "_"}

RECURSIVE TextsUpTo(_)
TextsUpTo(n) ==
  IF n = 0 THEN {<<>>}
  ELSE LET shorter == TextsUpTo(n - 1)
       IN  shorter \cup { Append(t, c) : t \in { u \in shorter : Len(u) = n - 1 },
                                         c \in PrefixChars }

\* the character classes "\s" and "[a-zA-Z0-9_]" on these characters
IsSpace(c) == c = " "
IsWordChar(c) == c \in {"a", "7", "_"}

\* ".replace(/\s+/g, '_')"
RECURSIVE ReplaceSpaces(_)
ReplaceSpaces(text) ==
  IF text = <<>> THEN <<>>
  ELSE IF IsSpace(Head(text))
  THEN IF Len(text) > 1 /\ IsSpace(text[2])
       THEN ReplaceSpaces(Tail(text))
       ELSE <<"_">> \o ReplaceSpaces(Tail(text))
  ELSE <<Head(text)>> \o ReplaceSpaces(Tail(text))

\* ".replace(/[^a-zA-Z0-9_]/g, '')"
RemoveUnsafe(text) == SelectSeq(text, IsWordChar)

\* the two fixed prefixes, each kept as one word
DefaultPrefixes == {<<"PixSnap_Image">>, <<"CapturedImage">>}

\* the body of the flow, lines 59-71; a rejection of "await prompt(input)"
\* is not caught and rejects the flow
generateImageNameFlow(out) ==
  IF out.kind = "rejected" THEN [kind |-> "threw", text |-> <<>>]
  ELSE IF out.kind = "text" /\ out.text # <<>>
  THEN LET prefix == RemoveUnsafe(ReplaceSpaces(out.text))
       IN  IF Len(prefix) = 0
           THEN [kind |-> "returned", text |-> <<"PixSnap_Image">>]
           ELSE [kind |-> "returned", text |-> prefix]
  ELSE [kind |-> "returned", text |-> <<"CapturedImage">>]

\* the page is not on screen: the values of its first render
InitNaming ==
  /\ output \in {[kind |-> "rejected", text |-> <<>>],
                  [kind |-> "null", text |-> <<>>]}
                  \cup { [kind |-> "text", text |-> t] :
                           t \in TextsUpTo(MaxPrefixLen) }
  /\ flowReturn = NotCalled
  /\ settings = NoSettings
  /\ searchParams = NoParams
  /\ cameras = 1
  /\ FirstRender
  /\ encoder = "steady"
  /\ ConfigUntouched
  /\ previewOpen = FALSE
  /\ capturedImage = NoCapture
  /\ isLoading = TRUE
  /\ streamInDeps = FALSE

\* a call "generateImageName(input)" to its end
GenerateImageName ==
  /\ flowReturn = NotCalled
  /\ flowReturn' = generateImageNameFlow(output)
  /\ UNCHANGED <<settings, hasCameraPermission, pc, locals, history, page,
                 isCapturingPhoto, toasts, dataUri, estimate, encoder, canvas,
                 camera, config, capturedImage, isLoading, streamInDeps,
                 output>>

NextNaming == GenerateImageName

SpecNaming == InitNaming /\ [][NextNaming]_vars


\* ================================================================= claims
HasToast(title) == \E i \in 1..Len(toasts) : toasts[i].title = title

\* the capture ran to the end and handed an image to the preview
Captured == pc = "done" /\ isPreviewing

\* the outcome kinds of the reporting contract, read off the notifications
MissedTarget == Captured /\ HasToast("File Size Warning")
MetAfterReduction == Captured /\ HasToast("File Size Optimized")
NotApplicable == Captured /\ HasToast("File Size Note")

QualityCapable == settings.format \in {"jpeg", "webp"}

\* the initial quality the specification gives for a format, in hundredths
StatedInitial(format) ==
  CASE format = "jpeg" -> 92
    [] format = "webp" -> 90
    [] OTHER -> NoValue

\* the qualities to visit from h down to the floor: h, then reductions of
\* 0.05 clamped at 0.10
RECURSIVE VisitedSequence(_)
VisitedSequence(h) ==
  IF h <= 10 THEN <<h>>
  ELSE <<h>> \o VisitedSequence(IF h - 5 < 10 THEN 10 ELSE h - 5)

TriedHundredths == [i \in 1..Len(tried) |-> tried[i].h]

\* C1: for JPEG or WEBP with a target > 0, the image handed over is at or
\* below the target if and only if some encode of the visited sequence was at
\* or below the target; when none was, the whole sequence down to the floor
\* has been visited.
C1_MetIffSomeVisitedMeets ==
  (Captured /\ QualityCapable /\ settings.targetFileSizeKB > 0) =>
    /\ (getEstimatedByteSize(imageDataUrl) <= targetSizeBytes) <=> anyMet
    /\ ~anyMet => TriedHundredths = VisitedSequence(StatedInitial(settings.format))
    /\ \E n \in 1..Len(VisitedSequence(StatedInitial(settings.format))) :
         TriedHundredths = SubSeq(VisitedSequence(StatedInitial(settings.format)), 1, n)

\* C1 witness: the target was missed at the first encodes and met by a later
\* reduction
C1_Witness ==
  /\ Captured /\ QualityCapable /\ settings.targetFileSizeKB > 0
  /\ iterations >= 2
  /\ anyMet
  /\ getEstimatedByteSize(imageDataUrl) <= targetSizeBytes

\* the bound of the specification: ceil((initial - 0.10) / 0.05) + 5
StatedIterationBound(format) == CeilDiv(StatedInitial(format) - 10, 5) + 5

\* C2: the loop body is executed at most ceil((initialQuality - 0.10)/0.05)+5
\* times, whatever sizes the encoder returns.
C2_IterationsBounded ==
  QualityCapable => iterations <= StatedIterationBound(settings.format)

\* C2 witness: an encoder whose sizes never reach the target drives the loop
\* to the floor
C2_Witness ==
  /\ Captured /\ settings.format = "jpeg"
  /\ ~anyMet
  /\ iterations = 17
  /\ getEstimatedByteSize(imageDataUrl) >= getEstimatedByteSize(firstImageUrl)

\* C3: every quality passed to the encoder lies between the floor 0.10 and
\* the initial quality, and a reduction that would fall below the floor is
\* replaced by exactly 0.10.
C3_QualityWithinFloor ==
  QualityCapable =>
    \A i \in 1..Len(tried) :
      /\ QLeq(minQuality, tried[i])
      /\ tried[i].h >= 10
      /\ QLeq(tried[i], Q(StatedInitial(settings.format), FALSE))
      /\ (i > 1 /\ QLess(SubtractStep(tried[i - 1]), minQuality))
           => tried[i] = Q(10, FALSE)

\* C3 witness: a reduction that fell below the floor has been clamped
C3_Witness ==
  /\ QualityCapable
  /\ \E i \in 2..Len(tried) :
       /\ QLess(SubtractStep(tried[i - 1]), minQuality)
       /\ tried[i] = minQuality

\* C4 as stated: whenever the outcome is MissedTarget, the reported
\* finalQuality is the floor 0.10 and the final size is above the target.
C4_MissedAtFloorQuality ==
  MissedTarget =>
    /\ finalQuality = Q(10, FALSE)
    /\ currentSize > targetSizeBytes

\* C4 amended: whenever the outcome is MissedTarget, the last quality tried
\* is the floor 0.10 and the final size is above the target; the reported
\* finalQuality is the quality the returned image was encoded with, which is
\* 0.10 exactly when the candidate encoded at the floor was adopted.
C4_MissedAfterFloorTried ==
  MissedTarget =>
    /\ currentQuality = Q(10, FALSE)
    /\ tried[Len(tried)] = Q(10, FALSE)
    /\ currentSize > targetSizeBytes
    /\ getEstimatedByteSize(imageDataUrl) = currentSize
    /\ finalQuality = imageDataUrl.q
    /\ QLeq(Q(10, FALSE), finalQuality)
    /\ (finalQuality = Q(10, FALSE)) <=> (imageDataUrl = nextImgUrl)

\* C4 witness: the target was missed and the candidate of the floor, as
\* large as the current best, was not adopted
C4_Witness ==
  /\ MissedTarget
  /\ finalQuality # minQuality
  /\ getEstimatedByteSize(nextImgUrl) = currentSize

\* C5: whenever the outcome is MetAfterReduction, the size reported and the
\* size of the image handed over are at or below the target, and the loop
\* body ran at least once.
C5_OptimizedMeetsTarget ==
  MetAfterReduction =>
    /\ currentSize <= targetSizeBytes
    /\ getEstimatedByteSize(imageDataUrl) <= targetSizeBytes
    /\ \A i \in 1..Len(toasts) :
         toasts[i].title = "File Size Optimized" =>
           toasts[i].size = getEstimatedByteSize(imageDataUrl)
    /\ iterations >= 1
    /\ settings.targetFileSizeKB > 0
    /\ finalQuality # initialQuality

\* C5 witness: a capture that met the target after several reductions
C5_Witness ==
  /\ MetAfterReduction
  /\ iterations >= 3
  /\ encodeCount = iterations + 1

SizeTitles == {"File Size Warning", "File Size Optimized", "File Size Note"}

NoSizeToast == \A i \in 1..Len(toasts) : toasts[i].title \notin SizeTitles

\* C6: with a target of 0 the encoder is called exactly once, at the initial
\* quality of the format (0.92 jpeg, 0.90 webp, none for png), the loop is
\* never entered and no size notification is made.
C6_UnconstrainedSingleEncode ==
  settings.targetFileSizeKB = 0 =>
    /\ pc \notin {"loop", "exit"}
    /\ iterations = 0
    /\ encodeCount <= 1
    /\ NoSizeToast
    /\ Captured =>
         /\ encodeCount = 1
         /\ TriedHundredths = <<StatedInitial(settings.format)>>
         /\ imageDataUrl = firstImageUrl

\* C6 witness: an unconstrained jpeg capture of a non-empty image
C6_Witness ==
  /\ Captured
  /\ settings.targetFileSizeKB = 0
  /\ settings.format = "jpeg"
  /\ getEstimatedByteSize(imageDataUrl) > 0

\* C7: for JPEG or WEBP with a target > 0, when the first encode is at or
\* below the target there is exactly one encode, the image handed over is
\* that encode at the initial quality, and no size notification is made.
C7_MetOnFirstTry ==
  ( /\ QualityCapable
    /\ settings.targetFileSizeKB > 0
    /\ encodeCount >= 1
    /\ getEstimatedByteSize(firstImageUrl) <= targetSizeBytes ) =>
      /\ encodeCount = 1
      /\ iterations = 0
      /\ NoSizeToast
      /\ Captured =>
           /\ imageDataUrl = firstImageUrl
           /\ imageDataUrl.q = Q(StatedInitial(settings.format), FALSE)
           /\ finalQuality = initialQuality

\* C7 witness: a first encode of exactly the target size was handed over
C7_Witness ==
  /\ Captured /\ QualityCapable /\ settings.targetFileSizeKB > 0
  /\ getEstimatedByteSize(firstImageUrl) = targetSizeBytes
  /\ imageDataUrl = firstImageUrl

\* C8: for PNG, whatever the target, there is exactly one encode, without a
\* quality, and neither the optimised nor the warning notification; with a
\* target > 0 that the size exceeds, the only size notification is a note
\* carrying the actual size and no quality, and the image is handed over as
\* encoded.
C8_PngSingleEncode ==
  settings.format = "png" =>
    /\ pc \notin {"loop", "exit"}
    /\ iterations = 0
    /\ encodeCount <= 1
    /\ ~HasToast("File Size Warning")
    /\ ~HasToast("File Size Optimized")
    /\ Captured =>
         /\ encodeCount = 1
         /\ tried = <<UndefinedQuality>>
         /\ imageDataUrl = firstImageUrl
         /\ imageDataUrl.q = UndefinedQuality
         /\ IF /\ settings.targetFileSizeKB > 0
               /\ getEstimatedByteSize(imageDataUrl) > targetSizeBytes
            THEN toasts = <<Toast("File Size Note",
                                  "PNG size. Target size affects JPEG/WEBP quality.",
                                  NoValue, getEstimatedByteSize(imageDataUrl),
                                  NoValue),
                            ImageCaptured>>
            ELSE toasts = <<ImageCaptured>>

\* C8 witness: a png above its target was handed over with the note
C8_Witness ==
  /\ NotApplicable
  /\ settings.format = "png"
  /\ getEstimatedByteSize(imageDataUrl) > targetSizeBytes

\* a step that executes the loop body
IsIteration == pc = "loop" /\ iterations' = iterations + 1

Body == AfterFirstComma(dataUri)

\* what a base64 encoder emits: groups of four characters, at most two pads
PaddedBase64 ==
  /\ Includes(dataUri, ",")
  /\ Len(Body) % 4 = 0
  /\ TrailingPads(Body) <= 2

C12_ScenarioTwo ==
  /\ iterations <= 10
  /\ encodeCount <= 11
  /\ (pc = "loop" /\ iterations < 10) => currentSize > targetSizeBytes
  /\ Captured =>
       /\ iterations = 10
       /\ encodeCount = 11
       /\ Percent(finalQuality) = 42
       /\ imageDataUrl.q = finalQuality
       /\ TriedHundredths = <<92, 87, 82, 77, 72, 67, 62, 57, 52, 47, 42>>
       /\ getEstimatedByteSize(imageDataUrl) <= targetSizeBytes
       /\ MetAfterReduction
       /\ ~MissedTarget

\* C12 witness: the scenario ran to its end from the 500000 byte encode
C12_Witness ==
  /\ Captured
  /\ encoder = "shrinking"
  /\ EncodedBytes(firstImageUrl) = 500000
  /\ iterations = 10
  /\ settings.targetFileSizeKB = 97


\* the outcome kinds, read off the settings and the sizes
OutcomeUnconstrained == Captured /\ settings.targetFileSizeKB = 0
OutcomeMetOnFirstTry ==
  /\ Captured /\ QualityCapable /\ settings.targetFileSizeKB > 0
  /\ getEstimatedByteSize(firstImageUrl) <= targetSizeBytes
OutcomeMetAfterReduction ==
  /\ Captured /\ QualityCapable /\ settings.targetFileSizeKB > 0
  /\ getEstimatedByteSize(firstImageUrl) > targetSizeBytes
  /\ getEstimatedByteSize(imageDataUrl) <= targetSizeBytes
OutcomeMissedTarget ==
  /\ Captured /\ QualityCapable /\ settings.targetFileSizeKB > 0
  /\ getEstimatedByteSize(imageDataUrl) > targetSizeBytes
OutcomeNotApplicable ==
  Captured /\ ~QualityCapable /\ settings.targetFileSizeKB > 0

\* the notifications about the size, in order
SizeToasts == SelectSeq(toasts, LAMBDA t : t.title \in SizeTitles)

\* the one size notification has this title and states the target, the size
\* and the quality of the image handed over
StatesAll(title) ==
  /\ Len(SizeToasts) = 1
  /\ SizeToasts[1].title = title
  /\ SizeToasts[1].target = settings.targetFileSizeKB
  /\ SizeToasts[1].size = getEstimatedByteSize(imageDataUrl)
  /\ SizeToasts[1].quality = Percent(imageDataUrl.q)

\* C13: a capture whose outcome is MetAfterReduction, MissedTarget or
\* NotApplicable makes one notification, whose title differs per outcome kind
\* and which states the target, the achieved size and the achieved quality;
\* Unconstrained and MetOnFirstTry make no such notification.
C13_NotificationStatesAll ==
  /\ OutcomeMetAfterReduction => StatesAll("File Size Optimized")
  /\ OutcomeMissedTarget => StatesAll("File Size Warning")
  /\ OutcomeNotApplicable => StatesAll("File Size Note")
  /\ (OutcomeUnconstrained \/ OutcomeMetOnFirstTry) => NoSizeToast


\* C14: at every iteration boundary and at loop exit the current best image
\* is the encoding made at finalQuality and currentSize is the estimated size
\* of that image; the image handed over is the current best, and the size and
\* quality in the notifications are those of the image handed over.
C14_ReportMatchesImage ==
  /\ pc \in {"loop", "exit"} =>
       /\ tempImageUrl.q = finalQuality
       /\ tempImageUrl.mime = MimeType(settings.format)
       /\ currentSize = getEstimatedByteSize(tempImageUrl)
  /\ (Captured /\ Searches(settings, initialQuality)) =>
       /\ imageDataUrl = tempImageUrl
       /\ imageDataUrl.q = finalQuality
       /\ currentSize = getEstimatedByteSize(imageDataUrl)
       /\ \A i \in 1..Len(SizeToasts) :
            /\ SizeToasts[i].size = getEstimatedByteSize(imageDataUrl)
            /\ SizeToasts[i].quality = Percent(imageDataUrl.q)

\* C14 witness: a candidate was adopted, later candidates were not, and the
\* warning reports the adopted image, which is neither the first nor the last
\* encode
C14_Witness ==
  /\ Captured
  /\ HasToast("File Size Warning")
  /\ imageDataUrl # firstImageUrl
  /\ imageDataUrl # nextImgUrl
  /\ finalQuality # currentQuality
  /\ SizeToasts[1].quality = Percent(imageDataUrl.q)


\* the capture button is rendered and enabled
CanCapture ==
  /\ settings # NoSettings /\ ~isPreviewing /\ stream # NoStream
  /\ hasCameraPermission = "true" /\ webcamError = NoError
  /\ ~isLoadingCamera /\ ~isCapturingPhoto

\* handleCapture has just failed for want of a 2D context
ContextFailed == pc = "done" /\ HasToast("Error") /\ ~isPreviewing

\* C15: when no 2D context can be obtained handleCapture reports an error,
\* encodes nothing, leaves the captured image, the preview flag and the camera
\* stream unchanged and returns with isCapturingPhoto false; the next render
\* restores the state in which the capture was attempted, so that a later
\* capture starts from the same state as if the attempt had not been made.
C15_NoContextNoTrace ==
  /\ [](ContextFailed =>
          /\ toasts = <<ErrorNoContext>>
          /\ encodeCount = 0
          /\ tempImageUrl = NoImage
          /\ ~isCapturingPhoto
          /\ imageDataUrl = NoImage)
  /\ [][ /\ (pc = "idle" /\ ContextFailed') =>
              /\ CanCapture
              /\ isCapturingPhoto' = FALSE
              /\ UNCHANGED <<imageDataUrl, isPreviewing, stream, videoSrc,
                             liveTracks, lastCapture, settings,
                             hasCameraPermission, locals, history, camera>>
         /\ (ContextFailed /\ pc' = "idle") =>
              /\ CanCapture'
              /\ toasts' = <<>>
              /\ UNCHANGED <<imageDataUrl, isPreviewing, stream, videoSrc,
                             liveTracks, lastCapture, settings,
                             hasCameraPermission, locals, history, camera,
                             isCapturingPhoto, canvas>> ]_vars

\* C15 witness: the attempt failed with the camera ready; the canvas has been
\* sized and nothing else has changed
C15_Witness ==
  /\ ContextFailed
  /\ toasts = <<ErrorNoContext>>
  /\ canvas = <<settings.width, settings.height>>
  /\ stream # NoStream /\ videoSrc = stream
  /\ lastCapture # NoImage

\* C16: handleCapture draws and encodes only in a state where the settings
\* are loaded, a stream has been acquired, permission is granted and no call
\* of initializeCamera is still in progress.
C16_EncodeAfterInitialisation ==
  [][ (encodeCount = 0 /\ encodeCount' > 0) =>
        /\ settings # NoSettings
        /\ stream # NoStream
        /\ hasCameraPermission = "true"
        /\ ~isLoadingCamera
        /\ runs = {} ]_vars

\* C18: whenever handleCapture has sized the canvas and encodes, the settings
\* in use have width >= 1, height >= 1 and target >= 0.
C18_PositiveDimensions ==
  (canvas # DefaultCanvas \/ encodeCount > 0) =>
    /\ settings.width >= 1
    /\ settings.height >= 1
    /\ settings.targetFileSizeKB >= 0
    /\ canvas[1] >= 1
    /\ canvas[2] >= 1

\* the four conditions of the claim, by the name of the rejection
FourConditions == {"NotAllowedError", "NotFoundError", "NotReadableError",
                   "OverconstrainedError"}

\* a call of initializeCamera ends in this step without a stream
AcquisitionFails ==
  \E run \in runs :
    /\ run \notin runs'
    /\ [run EXCEPT !.phase = "getUserMedia"] \notin runs'
    /\ stream' # run.id

\* C19: the permission-denied, device-not-found, device-busy and
\* unsupported-constraint rejections set four pairwise distinct webcamError
\* messages, and whenever an acquisition fails hasCameraPermission becomes
\* false, an error message is set, the stream is not set and the loading flag
\* is cleared.
C19_DistinctFailures ==
  /\ [](Cardinality({ ErrorDescription(n) : n \in FourConditions }) = 4)
  /\ [][ AcquisitionFails =>
           /\ hasCameraPermission' = "false"
           /\ stream' = NoStream
           /\ isLoadingCamera' = FALSE
           /\ webcamError' # NoError
           /\ webcamError' \in
                { ErrorDescription(n) : n \in ErrorNames }
                  \cup {"No video cameras found on this device."} ]_vars

\* C19 witness: the second of two concurrent calls failed because the device
\* is busy, after the first had acquired a stream
C19_Witness ==
  /\ webcamError =
       "Camera is currently in use by another application or a hardware error occurred."
  /\ hasCameraPermission = "false"
  /\ stream = NoStream
  /\ ~isLoadingCamera
  /\ initCalls >= 3
  /\ liveTracks # {}

\* C20: handleDownload starts a download only when a captured image exists
\* and otherwise only reports an error; the content downloaded is the image
\* of the most recent capture and the file name is
\* pixsnap_image_<width>x<height>.<format> of the settings.
C20_DownloadsLastCapture ==
  /\ [](imageDataUrl # NoImage => imageDataUrl = lastCapture)
  /\ [](download # NoDownload => download.href # NoImage)
  /\ [][ /\ (pc = "idle" /\ HasToast("Download Started")') =>
              /\ imageDataUrl # NoImage
              /\ download'.href = lastCapture
              /\ download'.name =
                   <<"pixsnap_image_">> \o Decimal(settings.width) \o <<"x">>
                     \o Decimal(settings.height) \o <<".", settings.format>>
         /\ (pc = "idle" /\ HasToast("Download Error")') =>
              /\ imageDataUrl = NoImage
              /\ UNCHANGED <<download, page, settings>>
         /\ download' # download => HasToast("Download Started")' ]_vars

\* C20 witness: after a retake and a second capture the download holds the
\* second image under the name of the 2 x 3 jpeg settings
C20_Witness ==
  /\ download.href = lastCapture
  /\ download.name = <<"pixsnap_image_", "2", "x", "3", ".", "jpeg">>
  /\ initCalls >= 2
  /\ isPreviewing


\* C17: the settings the configuration page emits when it opens the camera
\* window are the settings the preview page has after loading: the same
\* width, height and target and the same format and aspect ratio key.
C17_SettingsRoundTrip ==
  (emitted # NoSettings /\ previewOpen /\ ~isLoadingSettings) =>
    /\ settings # NoSettings
    /\ settings.width = emitted.width
    /\ settings.height = emitted.height
    /\ settings.targetFileSizeKB = emitted.targetFileSizeKB
    /\ settings.format = emitted.format
    /\ settings.aspectRatioKey = emitted.aspectRatioKey


StatedReductions(format) == CeilDiv(StatedInitial(format) - 10, 5)

\* C24: the budget maxAttempts is never what stops the loop: at every exit
\* the target is met or the quality is at the floor, after at most
\* ceil((initialQuality - 0.10) / 0.05) reductions (17 jpeg, 16 webp), and
\* attempts < maxAttempts.
C24_BudgetNeverBinds ==
  /\ pc \in {"loop", "exit"} =>
       /\ attempts < MaxAttempts(initialQuality)
       /\ attempts = iterations
       /\ iterations <= StatedReductions(settings.format)
       /\ StatedReductions(settings.format) =
            (IF settings.format = "jpeg" THEN 17 ELSE 16)
  /\ (pc = "exit" \/ (pc = "loop" /\ ~LoopGuard)) =>
       \/ currentSize <= targetSizeBytes
       \/ currentQuality = minQuality
  /\ (Captured /\ Searches(settings, initialQuality)) =>
       /\ attempts < MaxAttempts(initialQuality)
       /\ \/ currentSize <= targetSizeBytes
          \/ currentQuality = minQuality

\* C24 witness: a webp search stopped at the floor after its 16 reductions
\* with the budget of 21 not used up
C24_Witness ==
  /\ Captured
  /\ settings.format = "webp"
  /\ currentQuality = minQuality
  /\ attempts = 16
  /\ MaxAttempts(initialQuality) = 21
  /\ currentSize > targetSizeBytes

\* the query string lacks one of the five parameters, or a numeric one does
\* not parse, or the format is not one of png, jpeg, webp
StatedInvalid(params) ==
  \/ \E name \in {"width", "height", "format", "aspectRatioKey",
                   "targetFileSizeKB"} : ~Truthy(params[name])
  \/ \E name \in {"width", "height", "targetFileSizeKB"} :
       ParseInt(params[name].text).nan
  \/ params.format.text \notin { <<f>> : f \in Formats }

\* the camera has been asked for: a call of initializeCamera has passed its
\* guard, or a stream or track exists
CameraRequested ==
  \/ initCalls > 0
  \/ runs # {}
  \/ stream # NoStream
  \/ liveTracks # {}
  \/ hasCameraPermission # "null"

\* C30: the camera is requested only after the settings were loaded; when a
\* parameter is missing, a number does not parse or the format is unknown,
\* settings stays null, an error message is set, the settings-loading flag is
\* cleared and the camera is never requested.
C30_CameraOnlyWithSettings ==
  /\ CameraRequested =>
       /\ settings # NoSettings
       /\ ~isLoadingSettings
       /\ ~StatedInvalid(searchParams)
  /\ StatedInvalid(searchParams) =>
       /\ settings = NoSettings
       /\ ~CameraRequested
       /\ ~isLoadingSettings => webcamError # NoError
  /\ (~isLoadingSettings /\ ~StatedInvalid(searchParams)) =>
       /\ settings # NoSettings
       /\ initCalls > 0

\* C30 witness: the width does not parse; the page shows the error and no
\* camera was asked for
C30_Witness ==
  /\ searchParams.width = Param(<<"x">>)
  /\ ~isLoadingSettings
  /\ settings = NoSettings
  /\ webcamError = ParsedSettings(searchParams).error
  /\ webcamError # NoError
  /\ ~CameraRequested

\* C25: while isPreviewing holds a captured image is present, the stream
\* state is null and no acquired track is still running.
C25_PreviewMeansCameraOff ==
  isPreviewing =>
    /\ imageDataUrl # NoImage
    /\ stream = NoStream
    /\ liveTracks = {}

\* C26: at most one acquired stream is live and it is the one the stream
\* state refers to, and no step starts more than one call of
\* initializeCamera.
C26_OneLiveStream ==
  /\ [](liveTracks \subseteq ({stream} \ {NoStream}))
  /\ [][initCalls' <= initCalls + 1]_vars

\* the prefixes made only of characters of [A-Za-z0-9_]
IsUsablePrefix(prefix) ==
  /\ prefix # <<>>
  /\ \/ prefix \in DefaultPrefixes
     \/ \A i \in 1..Len(prefix) : IsWordChar(prefix[i])

\* C21: for every answer of the model, and when the call of the model fails,
\* generateImageName returns a non-empty prefix made of [A-Za-z0-9_] only,
\* which is a fixed default when the answer holds no usable suggestion.
C21_AlwaysUsablePrefix ==
  flowReturn # NotCalled =>
    /\ flowReturn.kind = "returned"
    /\ IsUsablePrefix(flowReturn.text)
    /\ (\A i \in 1..Len(output.text) :
          ~IsWordChar(output.text[i]) /\ ~IsSpace(output.text[i])) =>
         flowReturn.text \in DefaultPrefixes

\* the ratio a key names, width to height
StatedRatio(key) ==
  CASE key = "16:9" -> <<16, 9>>
    [] key = "9:16" -> <<9, 16>>
    [] key = "4:3" -> <<4, 3>>
    [] key = "3:4" -> <<3, 4>>
    [] OTHER -> <<1, 1>>

\* h is w / (r[1] / r[2]) rounded to the nearest integer, halves upwards
IsRounded(h, w, r) ==
  /\ (2 * h - 1) * r[1] <= 2 * w * r[2]
  /\ 2 * w * r[2] < (2 * h + 1) * r[1]

\* C29: on the configuration page width >= 1 and height >= 1 always hold,
\* with a ratio other than 'custom' selected the height is
\* max(1, round(width / ratio)), and an edit of the height selects 'custom'.
C29_FormKeepsRatio ==
  /\ [](/\ customWidth >= 1
        /\ customHeight >= 1
        /\ selectedAspectRatio # "custom" =>
             \/ IsRounded(customHeight, customWidth,
                          StatedRatio(selectedAspectRatio))
             \/ /\ customHeight = 1
                /\ IsRounded(0, customWidth,
                             StatedRatio(selectedAspectRatio)))
  /\ [][ (\E text \in HeightTexts : HandleHeightChange(text)) =>
           selectedAspectRatio' = "custom" ]_vars

\* C29 witness: 16:9 selected at width 8, where 8 / (16 / 9) = 4.5 is
\* rounded up to 5
C29_Witness ==
  /\ selectedAspectRatio = "16:9"
  /\ customWidth = 8
  /\ customHeight = 5

\* the format a mime type stands for
FormatOf(mime) == CHOOSE f \in Formats : MimeType(f) = mime

\* C28: the file name of a download carries the width, the height and the
\* format extension with which the downloaded image was encoded.
C28_NameMatchesImage ==
  download # NoDownload =>
    download.name = <<"pixsnap_image_">> \o Decimal(download.href.width)
                      \o <<"x">> \o Decimal(download.href.height)
                      \o <<".">> \o <<FormatOf(download.href.mime)>>

\* C27: after the mount the calls of initializeCamera come to an end and the
\* loading flag is false from some point on.
C27_InitialisationQuiesces == <>[](~isLoading /\ runs = {})

====
